---------------------------- MODULE Spec2Model ----------------------------
(***************************************************************************)
(* Model of the LLM chat gateway (model_server.py: transformers backend,   *)
(* vllm_server.py: vLLM backend) and of its process lifecycle and health   *)
(* endpoint.                                                               *)
(*                                                                         *)
(* Conventions.                                                            *)
(*   Optional[T]        None is <<>>, a value v is <<v>>.                  *)
(*   float              an integer number of tenths (0.7 is 7, 1.5 is 15). *)
(*   str                a sequence of symbols; the chat markers            *)
(*                      <|im_start|> and <|im_end|> are one symbol each.   *)
(*   HTTP result        a record with the status code in field code;       *)
(*                      code 0 means no answer has been produced yet.      *)
(***************************************************************************)
EXTENDS Integers, Sequences, FiniteSets, TLC

VARIABLES
    backend,        \* which server module the process runs (start_server.py)
    phase,          \* position of the lifespan context manager
    model,          \* model_server.py global `model`
    tokenizer,      \* model_server.py global `tokenizer`
    engine,         \* vllm_server.py global `engine`
    engineRunning,  \* the AsyncLLMEngine behind `engine` has not been shut down
    cacheEmptied,   \* torch.cuda.empty_cache() has run in the shutdown phase
    shutdownRaised, \* the shutdown phase of lifespan ended with an exception
    health,         \* the answer of the last GET /health
    reqs,           \* per client connection: the state of its chat request
    uuidCtr,        \* number of correlation ids drawn from random_uuid()
    jobs,           \* correlation ids of the generation jobs active in the engine
    ModelConfig,    \* config.py: the class attributes of ModelConfig
    pc,             \* monitor.py: position of run_monitoring_loop
    tick,           \* iterations of the monitor loop completed so far
    host,           \* what psutil and GPUtil report during this iteration
    metrics,        \* the report of this iteration, as far as it is collected
    inflight,       \* HTTP calls of the monitor that wait for their answer
    alerts,         \* the list check_alerts returned in this iteration
    logged,         \* entries the monitor's logger wrote in this iteration
    saved,          \* how save_metrics_to_file ended in this iteration
    file,           \* metrics.json
    stopCause,      \* why run_monitoring_loop left its loop
    elapsed,        \* seconds since this iteration began
    trace,          \* the calls run_monitoring_loop completed in this iteration
    sent            \* the HTTP requests the monitor issued in this iteration

vars == <<backend, phase, model, tokenizer, engine, engineRunning,
          cacheEmptied, shutdownRaised, health, reqs, uuidCtr, jobs,
          ModelConfig,
          pc, tick, host, metrics, inflight, alerts, logged, saved, file,
          stopCause, elapsed, trace, sent>>

\* the variables of the gateway process and of the monitor process
gatewayVars == <<backend, phase, model, tokenizer, engine, engineRunning,
                 cacheEmptied, shutdownRaised, health, reqs, uuidCtr, jobs,
                 ModelConfig>>
monitorVars == <<pc, tick, host, metrics, inflight, alerts, logged, saved,
                 file, stopCause, elapsed, trace, sent>>

lifeVars == <<phase, model, tokenizer, engine, engineRunning,
              cacheEmptied, shutdownRaised>>
chatVars == <<reqs, uuidCtr, jobs>>

-----------------------------------------------------------------------------
(* Bounds of the model                                                     *)

MaxReq == 2       \* client connections (chat requests) in one run
MaxOut == 2       \* outputs one engine job yields at most
MaxGpus == 2      \* devices GPUtil enumerates at most
MaxTurns == 2     \* messages of one conversation
MaxTicks == 1     \* times the monitor loop sleeps and starts over in one run

-----------------------------------------------------------------------------
(* Python values                                                           *)

None == << >>
Some(v) == <<v>>

\* Python truthiness of an Optional number: None and 0 are falsy.
Truthy(opt) == opt /= None /\ opt[1] /= 0

\* `opt or default`
OrDefault(opt, default) == IF Truthy(opt) THEN opt[1] ELSE default

\* dict.get(key, default)
Get(d, key, default) == IF key \in DOMAIN d THEN d[key] ELSE default

-----------------------------------------------------------------------------
(* config.py: ModelConfig (floats in tenths)                               *)

MAX_TOKENS == 2048
TEMPERATURE == 7
TOP_P == 9
REPETITION_PENALTY == 11

\* the stop sequences both chat handlers of vllm_server.py pass
StopSequences == {"<|im_end|>", "<|endoftext|>"}

\* the token id get_generation_kwargs gives for pad_token_id and eos_token_id
EOS_TOKEN_ID == 151643

\* The class attributes the chat handlers read, as the class body assigns
\* them.
ClassAttributes ==
    [MAX_TOKENS |-> MAX_TOKENS, TEMPERATURE |-> TEMPERATURE,
     TOP_P |-> TOP_P, REPETITION_PENALTY |-> REPETITION_PENALTY]

\* ModelConfig.get_generation_kwargs(): a dict literal, so a new dict on
\* every call, filled from the class attributes.
get_generation_kwargs ==
    [max_new_tokens |-> ModelConfig.MAX_TOKENS,
     temperature |-> ModelConfig.TEMPERATURE,
     top_p |-> ModelConfig.TOP_P,
     repetition_penalty |-> ModelConfig.REPETITION_PENALTY,
     do_sample |-> TRUE,
     pad_token_id |-> EOS_TOKEN_ID,
     eos_token_id |-> EOS_TOKEN_ID]

-----------------------------------------------------------------------------
(* Process lifecycle: lifespan, load_model, create_engine                  *)

Backends == {"transformers", "vllm"}

\* Where load_model can stop: it raises while loading the tokenizer, while
\* loading the model, or after both globals are assigned (lines 97-106), or
\* it returns.
LoadOutcomes == {"tokenizer_raises", "model_raises", "late_raise", "ok"}

load_model_ModelFirst(outcome) ==
    /\ model' = IF outcome = "model_raises" THEN "None" ELSE "loaded"
    /\ tokenizer' = IF outcome \in {"tokenizer_raises", "model_raises"}
                    THEN "None" ELSE "loaded"
    /\ phase' = IF outcome = "ok" THEN "serving" ELSE "startup_failed"

\* load_model(): the globals are assigned in order, tokenizer first; any
\* exception is logged and re-raised with the assignments made so far kept.
load_model(outcome) ==
    /\ tokenizer' = IF outcome = "tokenizer_raises" THEN "None" ELSE "loaded"
    /\ model' = IF outcome \in {"tokenizer_raises", "model_raises"}
                THEN "None" ELSE "loaded"
    /\ phase' = IF outcome = "ok" THEN "serving" ELSE "startup_failed"

\* create_engine(): `engine` is assigned only when from_engine_args returns.
create_engine(ok) ==
    /\ engine' = IF ok THEN "engine" ELSE "None"
    /\ engineRunning' = ok
    /\ phase' = IF ok THEN "serving" ELSE "startup_failed"

\* Names the body of model_server.lifespan binds without a `global`
\* declaration: `del model` and `del tokenizer` are binding operations, so
\* both names are local to lifespan and nothing ever assigns them there.
LifespanLocalNames == {"model", "tokenizer"}

\* The routes answer while the application object exists and the process has
\* not stopped: before the startup phase (an ASGI server that does not run
\* the lifespan protocol) and while serving.
Answering == phase \in {"created", "serving"}


-----------------------------------------------------------------------------
(* GET /health: get_system_info, HealthResponse, health_check              *)

\* What GPUtil reports for one device; memoryUtil in hundredths.
GpuSamples ==
    {[memoryUsed |-> 2, memoryTotal |-> 8, memoryUtil |-> 25],
     [memoryUsed |-> 8, memoryTotal |-> 8, memoryUtil |-> 100]}

\* GPUtil.getGPUs(): it raises, or it returns a list of devices.
GpuEnumerations ==
    {[raises |-> TRUE, gpus |-> << >>]} \cup
    {[raises |-> FALSE, gpus |-> g] :
        g \in UNION {[1..n -> GpuSamples] : n \in 0..MaxGpus}}

\* psutil.virtual_memory().percent
HostMemorySamples == {20, 95}

\* One entry of the gpu_memory dict: its key, the Python type of its value,
\* and for a dict value its three numbers.
GpuEntry(i, gpu) ==
    [key |-> [name |-> "gpu", index |-> i], type |-> "dict",
     used |-> gpu.memoryUsed, total |-> gpu.memoryTotal,
     utilization |-> gpu.memoryUtil * 100]

ErrorEntry ==
    [key |-> [name |-> "error", index |-> 0], type |-> "str",
     used |-> 0, total |-> 0, utilization |-> 0]

\* get_system_info(): the gpu_memory dict (as the sequence of its entries)
\* and the host memory percentage.
get_system_info(enum, percent) ==
    [gpu_memory |-> IF enum.raises
                    THEN <<ErrorEntry>>
                    ELSE [i \in 1..Len(enum.gpus) |-> GpuEntry(i - 1, enum.gpus[i])],
     system_memory |-> percent]

\* pydantic's check of a value against the declared field type
\* Dict[str, float]: every value of the dict must be a number.
ValidDictStrFloat(d) == \A i \in DOMAIN d : d[i].type \in {"float", "int"}

\* HealthResponse(...): the declared model, lines 54-59 (65-71 in
\* vllm_server.py); construction raises a validation error when gpu_memory
\* does not fit its declared type.
HealthResponse(status, model_loaded, gpu_memory, system_memory) ==
    IF ValidDictStrFloat(gpu_memory)
    THEN [code |-> 200, status |-> status, model_loaded |-> model_loaded,
          gpu_memory |-> gpu_memory, system_memory |-> system_memory]
    ELSE [code |-> 500, status |-> "", model_loaded |-> FALSE,
          gpu_memory |-> << >>, system_memory |-> 0]

NoHealth ==
    [code |-> 0, status |-> "", model_loaded |-> FALSE,
     gpu_memory |-> << >>, system_memory |-> 0]

\* the handle health_check looks at: `model` or `engine`
Handle == IF backend = "transformers" THEN model ELSE engine

HealthStatus_Constant(handle) == "healthy"

\* status="healthy" if model is not None else "unhealthy"
HealthStatus(handle) == IF handle /= "None" THEN "healthy" ELSE "unhealthy"

\* model_loaded=model is not None
ModelLoaded(handle) == handle /= "None"

\* health_check(): an exception of the handler is answered with HTTP 500.
health_check ==
    /\ Answering
    /\ \E enum \in GpuEnumerations, percent \in HostMemorySamples :
         LET info == get_system_info(enum, percent)
         IN health' = HealthResponse(HealthStatus(Handle), ModelLoaded(Handle),
                                     info.gpu_memory, info.system_memory)
    /\ UNCHANGED <<monitorVars, ModelConfig, backend, lifeVars, chatVars>>

-----------------------------------------------------------------------------
(* Chat requests: ChatRequest, format_chat_messages, parameter resolution  *)

Slots == 1..MaxReq

ChatRequest(messages, max_tokens, temperature, top_p, stream) ==
    [messages |-> messages, max_tokens |-> max_tokens,
     temperature |-> temperature, top_p |-> top_p, stream |-> stream]

\* A JSON body validated as ChatRequest: an absent optional field is None,
\* `stream` defaults to False, and a key the class does not declare is
\* ignored (the pydantic default for a BaseModel).
ParseChatRequest(body) ==
    LET field(key) == IF key \in DOMAIN body THEN Some(body[key]) ELSE None
    IN ChatRequest(body.messages, field("max_tokens"), field("temperature"),
                   field("top_p"), Get(body, "stream", FALSE))

generation_kwargs_ClientPenalty(request) ==
    [get_generation_kwargs EXCEPT
        !.max_new_tokens = IF Truthy(request.max_tokens)
                           THEN request.max_tokens[1] ELSE @,
        !.temperature = IF Truthy(request.temperature)
                        THEN request.temperature[1] ELSE @,
        !.top_p = IF Truthy(request.top_p) THEN request.top_p[1] ELSE @,
        !.repetition_penalty = IF Truthy(request.temperature)
                               THEN request.temperature[1] ELSE @]

FormatTurn_AnyRole(message) ==
    LET role == Get(message, "role", "")
        content == Get(message, "content", << >>)
    IN <<"<|im_start|>", role, "\n">> \o content \o <<"<|im_end|>", "\n">>

\* One turn of format_chat_messages: the block of a user or assistant
\* message, nothing for any other role.
FormatTurn(message) ==
    LET role == Get(message, "role", "")
        content == Get(message, "content", << >>)
    IN IF role = "user"
       THEN <<"<|im_start|>", "user", "\n">> \o content \o <<"<|im_end|>", "\n">>
       ELSE IF role = "assistant"
       THEN <<"<|im_start|>", "assistant", "\n">> \o content \o <<"<|im_end|>", "\n">>
       ELSE << >>

RECURSIVE FormatLoop(_, _)
FormatLoop(formatted_text, messages) ==
    IF messages = << >>
    THEN formatted_text
    ELSE FormatLoop(formatted_text \o FormatTurn(Head(messages)), Tail(messages))

format_chat_messages_NoTrailer(messages) == FormatLoop(<< >>, messages)

\* format_chat_messages(messages)
format_chat_messages(messages) ==
    FormatLoop(<< >>, messages) \o <<"<|im_start|>", "assistant", "\n">>

ClassAttributesAfter_Shared(config, request) ==
    [config EXCEPT
        !.MAX_TOKENS = OrDefault(request.max_tokens, @),
        !.TEMPERATURE = OrDefault(request.temperature, @),
        !.TOP_P = OrDefault(request.top_p, @)]

\* The class attributes after model_server.chat has written a request's
\* overrides into its generation_kwargs (lines 213-218): the dict is the
\* one get_generation_kwargs built for this call, so the attributes keep
\* their values.
ClassAttributesAfter(config, request) == config

\* model_server.chat lines 212-218: the defaults, each overwritten by the
\* request's value when that value is truthy.
generation_kwargs(request) ==
    [get_generation_kwargs EXCEPT
        !.max_new_tokens = IF Truthy(request.max_tokens)
                           THEN request.max_tokens[1] ELSE @,
        !.temperature = IF Truthy(request.temperature)
                        THEN request.temperature[1] ELSE @,
        !.top_p = IF Truthy(request.top_p) THEN request.top_p[1] ELSE @]

\* vllm_server.chat lines 208-214 (and 275-281): the arguments of
\* SamplingParams(...).
sampling_params(request) ==
    [max_tokens |-> OrDefault(request.max_tokens, ModelConfig.MAX_TOKENS),
     temperature |-> OrDefault(request.temperature, ModelConfig.TEMPERATURE),
     top_p |-> OrDefault(request.top_p, ModelConfig.TOP_P),
     repetition_penalty |-> ModelConfig.REPETITION_PENALTY,
     stop |-> StopSequences]

\* The domains of the sampling values (the spec's GenerationConfig).
MaxTokensInDomain(v) == v >= 1
TemperatureInDomain(v) == v >= 0
TopPInDomain(v) == v > 0 /\ v <= 10

\* The SamplingParams constructor belongs to the vLLM library: it accepts
\* arguments of the valid domain, and for an argument outside it either
\* raises a ValueError or accepts it (`libraryRaises`).
SamplingParamsRaises(sp, libraryRaises) ==
    /\ libraryRaises
    /\ ~ (/\ MaxTokensInDomain(sp.max_tokens)
          /\ TemperatureInDomain(sp.temperature)
          /\ TopPInDomain(sp.top_p))

-----------------------------------------------------------------------------
(* Responses and stream frames                                             *)

NoResponse == [code |-> 0, kind |-> "", response |-> << >>, detail |-> << >>]

\* raise HTTPException(status_code=code, detail=...); the detail is a
\* sequence of text pieces.
HTTPException(code, detail) ==
    [code |-> code, kind |-> "error", response |-> << >>, detail |-> detail]

Caught_NoCause(cause) == HTTPException(500, <<"request processing failed">>)

\* The `except Exception as e` of both chat handlers: a 500 whose detail is
\* the fixed prefix followed by str(e).
Caught(cause) == HTTPException(500, <<"request processing failed", cause>>)

\* return ChatResponse(response=text, ...): an ordinary JSON answer
ChatResponse(text) ==
    [code |-> 200, kind |-> "json", response |-> text, detail |-> << >>]

\* return StreamingResponse(generate_stream(), ...): the answer is started,
\* its body is the frames the generator yields.
StreamingResponse ==
    [code |-> 200, kind |-> "stream", response |-> << >>, detail |-> << >>]

\* generate_stream lines 298-310: a chunk with delta {"content": text}
ContentFrame(request_id, text) ==
    [kind |-> "content", id |-> request_id, hasContent |-> TRUE,
     content |-> text, finish_reason |-> "None"]

\* generate_stream lines 313-323: the chunk with delta {} and
\* finish_reason "stop"
FinishFrame(request_id) ==
    [kind |-> "finish", id |-> request_id, hasContent |-> FALSE,
     content |-> << >>, finish_reason |-> "stop"]

\* generate_stream line 324: the literal frame `data: [DONE]`
DoneFrame(request_id) ==
    [kind |-> "done", id |-> request_id, hasContent |-> FALSE,
     content |-> << >>, finish_reason |-> "None"]

NoRequest == ChatRequest(<< >>, None, None, None, FALSE)

\* The usage dict of a handler that has not answered with a ChatResponse.
NoUsage == [prompt_tokens |-> 0, completion_tokens |-> 0, total_tokens |-> 0]

\* Number of tokens of a text: one token per symbol.
TokenCount(text) == Len(text)

UsageT_TotalOfShapes(input_ids, outputs) ==
    [prompt_tokens |-> input_ids,
     completion_tokens |-> outputs - input_ids,
     total_tokens |-> input_ids + outputs]

\* model_server.chat lines 235-237 and 245-249: input_ids and outputs are
\* the lengths inputs.input_ids.shape[1] and outputs.shape[1].
UsageT(input_ids, outputs) ==
    LET input_tokens == input_ids
        output_tokens == outputs - input_tokens
        total_tokens == input_tokens + output_tokens
    IN [prompt_tokens |-> input_tokens,
        completion_tokens |-> output_tokens,
        total_tokens |-> total_tokens]

\* vllm_server.chat lines 240-242 and 250-254: the lengths of
\* final_output.prompt_token_ids and final_output.outputs[0].token_ids.
UsageV(prompt_token_ids, token_ids) ==
    LET input_tokens == prompt_token_ids
        output_tokens == token_ids
        total_tokens == input_tokens + output_tokens
    IN [prompt_tokens |-> input_tokens,
        completion_tokens |-> output_tokens,
        total_tokens |-> total_tokens]

\* A connection on which no request has arrived yet.
IdleReq ==
    [st |-> "idle",          \* idle, generating, streaming, yield_done, done
     route |-> "",           \* "/chat" or "/chat/stream"
     req |-> NoRequest,      \* the request body
     loaded |-> FALSE,       \* the handle was loaded when the handler started
     formatted |-> FALSE,    \* format_chat_messages has run
     prompt |-> << >>,       \* input_text
     sampling |-> None,      \* the configuration handed to the backend
     backendCalls |-> 0,     \* model.generate / engine.generate calls made
     id |-> 0,               \* request_id
     seen |-> << >>,         \* engine outputs the handler has consumed
     sources |-> {},         \* request ids of the jobs those outputs came from
     stages |-> << >>,       \* what the handler has done so far, in order
     frames |-> << >>,       \* frames the stream generator has yielded
     streamEnd |-> "",       \* returned, raised or cancelled
     raised |-> "",          \* str(e) of the exception the backend raised
     usage |-> NoUsage,      \* the usage dict of the ChatResponse
     resp |-> NoResponse]    \* the HTTP answer

\* Nothing has been answered yet: a server that runs the lifespan protocol
\* accepts no request before its startup phase is over.
NothingAnswered == health.code = 0 /\ \A s \in Slots : reqs[s].st = "idle"

\* No request is being handled: the server finishes the open connections
\* before it runs the shutdown phase.
NothingInFlight == \A s \in Slots : reqs[s].st \in {"idle", "done"}

\* Connections are numbered in the order their requests arrive.
NextConnection(s) ==
    /\ reqs[s].st = "idle"
    /\ \A t \in Slots : t < s => reqs[t].st /= "idle"

-----------------------------------------------------------------------------
(* The lifespan context manager                                            *)

\* lifespan, startup phase (model_server.py)
StartupT ==
    /\ backend = "transformers"
    /\ phase = "created"
    /\ NothingAnswered
    /\ \E outcome \in LoadOutcomes : load_model(outcome)
    /\ UNCHANGED <<monitorVars, ModelConfig, backend, engine, engineRunning, cacheEmptied,
                   shutdownRaised, health, chatVars>>

\* lifespan, startup phase (vllm_server.py)
StartupV ==
    /\ backend = "vllm"
    /\ phase = "created"
    /\ NothingAnswered
    /\ \E ok \in BOOLEAN : create_engine(ok)
    /\ UNCHANGED <<monitorVars, ModelConfig, backend, model, tokenizer, cacheEmptied,
                   shutdownRaised, health, chatVars>>

\* lifespan, shutdown phase (model_server.py lines 123-130).  Line 125 reads
\* `model`; as a local name that was never assigned the read raises
\* UnboundLocalError, and the rest of the phase does not run.
ShutdownT ==
    /\ backend = "transformers"
    /\ phase = "serving"
    /\ NothingInFlight
    /\ phase' = "stopped"
    /\ IF "model" \in LifespanLocalNames
       THEN /\ shutdownRaised' = TRUE
            /\ UNCHANGED <<model, tokenizer, cacheEmptied>>
       ELSE /\ model' = "None"
            /\ IF "tokenizer" \in LifespanLocalNames
               THEN /\ shutdownRaised' = TRUE
                    /\ UNCHANGED <<tokenizer, cacheEmptied>>
               ELSE /\ tokenizer' = "None"
                    /\ cacheEmptied' = TRUE
                    /\ UNCHANGED shutdownRaised
    /\ UNCHANGED <<monitorVars, ModelConfig, backend, engine, engineRunning, health, chatVars>>

\* lifespan, shutdown phase (vllm_server.py lines 150-154): the global is
\* only read, so the engine is shut down; the global keeps the handle.
ShutdownV ==
    /\ backend = "vllm"
    /\ phase = "serving"
    /\ NothingInFlight
    /\ phase' = "stopped"
    /\ engineRunning' = IF engine /= "None" THEN FALSE ELSE engineRunning
    /\ UNCHANGED <<monitorVars, ModelConfig, backend, model, tokenizer, engine, cacheEmptied,
                   shutdownRaised, health, chatVars>>

-----------------------------------------------------------------------------
(* POST /chat of model_server.py (transformers backend)                    *)

\* line 199: `model is None or tokenizer is None`
NotLoadedT == model = "None" \/ tokenizer = "None"

\* Both globals hold their objects.
HandlesLoadedT == model /= "None" /\ tokenizer /= "None"

\* What the tokenizer and the model do with a request: the tokenizer call or
\* the move to the device raises, model.generate (or the decoding after it)
\* raises, or a text is generated.
GenerateOutcomes == {"tokenize_raises", "generate_raises", "ok"}

\* Decoded texts of the newly generated tokens.
Texts == {<< >>, <<"a">>, <<"a", "b">>}

\* chat(request) of model_server.py.  The handler has no await: it runs from
\* its first line to its answer without interleaving.  request.stream is
\* never read.
chat_transformers(request, outcome, text) ==
    LET entered == [IdleReq EXCEPT !.st = "done", !.route = "/chat",
                                   !.req = request, !.loaded = HandlesLoadedT,
                                   !.stages = <<"Received">>]
    IN IF NotLoadedT
       THEN [entered EXCEPT !.stages = @ \o <<"Failed">>,
                            !.resp = HTTPException(503, <<"model not loaded">>)]
       ELSE
         \* line 206, then line 209: tokenizer(...).to(model.device)
         LET input_text == format_chat_messages(request.messages)
             formatted == [entered EXCEPT !.formatted = TRUE,
                                          !.prompt = input_text,
                                          !.stages = @ \o <<"Formatting",
                                                            "Tokenizing">>]
         IN IF ~HandlesLoadedT \/ outcome = "tokenize_raises"
            THEN [formatted EXCEPT !.stages = @ \o <<"Failed">>,
                                   !.raised = "tokenizer failure",
                                   !.resp = Caught("tokenizer failure")]
            ELSE
              \* lines 212-218, then line 222: model.generate
              LET called == [formatted EXCEPT
                               !.sampling = Some(generation_kwargs(request)),
                               !.backendCalls = 1,
                               !.stages = @ \o <<"Resolving", "Generating">>]
                  \* model.generate returns the prompt's tokens followed by
                  \* the new ones
                  input_ids == TokenCount(input_text)
                  outputs == input_ids + TokenCount(text)
              IN IF outcome = "generate_raises"
                 THEN [called EXCEPT !.stages = @ \o <<"Failed">>,
                                     !.raised = "generate failure",
                                     !.resp = Caught("generate failure")]
                 ELSE [called EXCEPT !.stages = @ \o <<"Completed">>,
                                     !.usage = UsageT(input_ids, outputs),
                                     !.resp = ChatResponse(text)]

chatT(s, request) ==
    /\ backend = "transformers"
    /\ Answering
    /\ NextConnection(s)
    /\ \E outcome \in GenerateOutcomes, text \in Texts :
         reqs' = [reqs EXCEPT ![s] = chat_transformers(request, outcome, text)]
    /\ ModelConfig' = IF NotLoadedT
                      THEN ModelConfig
                      ELSE ClassAttributesAfter(ModelConfig, request)
    /\ UNCHANGED <<monitorVars, backend, lifeVars, health, uuidCtr, jobs>>

-----------------------------------------------------------------------------
(* POST /chat and POST /chat/stream of vllm_server.py (vLLM backend)       *)

EngineMissing_Skipped == FALSE

random_uuid_Reused(drawn) == 1

\* random_uuid() of vllm.utils: a version-4 UUID, so a value no earlier call
\* returned; `drawn` is the number of ids drawn so far.
random_uuid(drawn) == drawn + 1

\* lines 198 and 267: `engine is None`
EngineMissing == engine = "None"

\* Lines 198-224 of chat and 267-291 of chat_stream are the same code: the
\* 503 check, then inside `try` the formatting, the SamplingParams, the
\* fresh request_id and the call of engine.generate.  Neither handler reads
\* request.stream.  The result names the connection's new state, whether a
\* request_id was drawn and whether a job was handed to the engine.
Prelude(request, route, libraryRaises) ==
    LET entered == [IdleReq EXCEPT !.route = route, !.req = request,
                                   !.loaded = (engine /= "None"),
                                   !.stages = <<"Received">>]
        failed(r, cause) == [r EXCEPT !.st = "done", !.raised = cause,
                                      !.stages = @ \o <<"Failed">>,
                                      !.resp = Caught(cause)]
    IN IF EngineMissing
       THEN [slot |-> [entered EXCEPT
                         !.st = "done",
                         !.stages = @ \o <<"Failed">>,
                         !.resp = HTTPException(503, <<"engine not initialized">>)],
             drawn |-> FALSE, submitted |-> FALSE]
       ELSE
         LET input_text == format_chat_messages(request.messages)
             formatted == [entered EXCEPT !.formatted = TRUE,
                                          !.prompt = input_text,
                                          !.stages = @ \o <<"Formatting",
                                                            "Resolving">>]
             sp == sampling_params(request)
         IN IF SamplingParamsRaises(sp, libraryRaises)
            THEN [slot |-> failed(formatted, "sampling value error"),
                  drawn |-> FALSE, submitted |-> FALSE]
            ELSE IF engine = "None"
            THEN [slot |-> failed([formatted EXCEPT !.id = random_uuid(uuidCtr)],
                                  "engine is None"),
                  drawn |-> TRUE, submitted |-> FALSE]
            ELSE [slot |-> [formatted EXCEPT
                              !.sampling = Some(sp),
                              !.id = random_uuid(uuidCtr),
                              !.backendCalls = 1,
                              !.stages = @ \o <<"Generating">>,
                              !.st = IF route = "/chat"
                                     THEN "generating" ELSE "streaming",
                              !.resp = IF route = "/chat"
                                       THEN NoResponse ELSE StreamingResponse],
                  drawn |-> TRUE, submitted |-> TRUE]

Begin(s, request, route) ==
    /\ \E libraryRaises \in BOOLEAN :
         LET p == Prelude(request, route, libraryRaises)
         IN /\ reqs' = [reqs EXCEPT ![s] = p.slot]
            /\ uuidCtr' = IF p.drawn THEN uuidCtr + 1 ELSE uuidCtr
            /\ jobs' = IF p.submitted THEN jobs \cup {p.slot.id} ELSE jobs
    /\ UNCHANGED <<monitorVars, ModelConfig, backend, lifeVars, health>>

\* chat(request) of vllm_server.py up to its first await
chat(s, request) ==
    /\ backend = "vllm"
    /\ Answering
    /\ NextConnection(s)
    /\ Begin(s, request, "/chat")

\* chat_stream(request) of vllm_server.py up to the return of the
\* StreamingResponse
chat_stream(s, request) ==
    /\ backend = "vllm"
    /\ Answering
    /\ NextConnection(s)
    /\ Begin(s, request, "/chat/stream")

\* New text one engine step adds.
Chunks == {<< >>, <<"a">>}

\* The text of the last output a handler has consumed.
LastText(seen) == IF seen = << >> THEN << >> ELSE seen[Len(seen)].text

\* The outputs the engine can yield next for a job: outputs[0].text holds the
\* whole text generated so far (SamplingParams is built without an
\* output_kind, so the engine's outputs are cumulative), and `finished`
\* marks the last one.
EngineOutputs(seen) ==
    {[text |-> LastText(seen) \o c, finished |-> f] :
        c \in Chunks, f \in BOOLEAN}

\* The handler of connection s waits for the next output of its job.
Consuming(s, states) ==
    /\ Answering
    /\ reqs[s].st \in states
    /\ reqs[s].id \in jobs

\* chat lines 228-257: one turn of `async for`.  An unfinished output is
\* skipped; the first finished one is the final_output, and its text the
\* response.
chat_next(s) ==
    /\ Consuming(s, {"generating"})
    /\ Len(reqs[s].seen) < MaxOut
    /\ \E request_output \in EngineOutputs(reqs[s].seen) :
         LET r == [reqs[s] EXCEPT !.seen = Append(@, request_output),
                                  !.sources = @ \cup {reqs[s].id}]
         IN IF request_output.finished
            THEN /\ reqs' = [reqs EXCEPT ![s] =
                        [r EXCEPT !.st = "done",
                                  !.stages = @ \o <<"Completed">>,
                                  !.usage = UsageV(TokenCount(r.prompt),
                                                   TokenCount(request_output.text)),
                                  !.resp = ChatResponse(request_output.text)]]
                 /\ jobs' = jobs \ {reqs[s].id}
            ELSE /\ reqs' = [reqs EXCEPT ![s] = r]
                 /\ UNCHANGED jobs
    /\ UNCHANGED <<monitorVars, ModelConfig, backend, lifeVars, health, uuidCtr>>

\* chat lines 233-234 and 259-262: the engine's stream ends with no finished
\* output; the HTTPException raised for it inside `try` is caught by
\* `except Exception` and raised again as a 500.
chat_exhausted(s) ==
    /\ Consuming(s, {"generating"})
    /\ reqs' = [reqs EXCEPT ![s] =
            [@ EXCEPT !.st = "done", !.raised = "500: generation failed",
                      !.stages = @ \o <<"Failed">>,
                      !.resp = Caught("500: generation failed")]]
    /\ jobs' = jobs \ {reqs[s].id}
    /\ UNCHANGED <<monitorVars, ModelConfig, backend, lifeVars, health, uuidCtr>>

chat_raises_DropsEngine(s) ==
    /\ Consuming(s, {"generating"})
    /\ reqs' = [reqs EXCEPT ![s] =
            [@ EXCEPT !.st = "done", !.raised = "engine failure",
                      !.stages = @ \o <<"Failed">>,
                      !.resp = Caught("engine failure")]]
    /\ jobs' = jobs \ {reqs[s].id}
    /\ engine' = "None"
    /\ UNCHANGED <<monitorVars, ModelConfig, backend, phase, model, tokenizer, engineRunning,
                   cacheEmptied, shutdownRaised, health, uuidCtr>>

\* chat lines 259-262: the engine raises while the handler waits.
chat_raises(s) ==
    /\ Consuming(s, {"generating"})
    /\ reqs' = [reqs EXCEPT ![s] =
            [@ EXCEPT !.st = "done", !.raised = "engine failure",
                      !.stages = @ \o <<"Failed">>,
                      !.resp = Caught("engine failure")]]
    /\ jobs' = jobs \ {reqs[s].id}
    /\ UNCHANGED <<monitorVars, ModelConfig, backend, lifeVars, health, uuidCtr>>

\* generate_stream lines 295-323: one turn of `async for` up to its yield.
\* An unfinished output yields a content frame with the output's text; the
\* finished output yields the finish frame, whose delta is empty.
generate_stream_next(s) ==
    /\ Consuming(s, {"streaming"})
    /\ Len(reqs[s].seen) < MaxOut
    /\ \E request_output \in EngineOutputs(reqs[s].seen) :
         LET r == [reqs[s] EXCEPT !.seen = Append(@, request_output),
                                  !.sources = @ \cup {reqs[s].id}]
         IN IF ~request_output.finished
            THEN /\ reqs' = [reqs EXCEPT ![s] =
                        [r EXCEPT !.frames = Append(@,
                            ContentFrame(r.id, request_output.text))]]
                 /\ UNCHANGED jobs
            ELSE /\ reqs' = [reqs EXCEPT ![s] =
                        [r EXCEPT !.frames = Append(@, FinishFrame(r.id)),
                                  !.st = "yield_done"]]
                 /\ jobs' = jobs \ {reqs[s].id}
    /\ UNCHANGED <<monitorVars, ModelConfig, backend, lifeVars, health, uuidCtr>>

generate_stream_done_NoSentinel(s) ==
    /\ Answering
    /\ reqs[s].st = "yield_done"
    /\ reqs' = [reqs EXCEPT ![s] =
            [@ EXCEPT !.st = "done", !.streamEnd = "returned",
                      !.stages = @ \o <<"Completed">>]]
    /\ UNCHANGED <<monitorVars, ModelConfig, backend, lifeVars, health, uuidCtr, jobs>>

\* generate_stream lines 324-325: after the finish frame, the [DONE] frame,
\* then `break`: the generator returns.
generate_stream_done(s) ==
    /\ Answering
    /\ reqs[s].st = "yield_done"
    /\ reqs' = [reqs EXCEPT ![s] =
            [@ EXCEPT !.frames = Append(@, DoneFrame(reqs[s].id)),
                      !.st = "done", !.streamEnd = "returned",
                      !.stages = @ \o <<"Completed">>]]
    /\ UNCHANGED <<monitorVars, ModelConfig, backend, lifeVars, health, uuidCtr, jobs>>

\* generate_stream line 295: the engine's stream ends with no finished
\* output; the loop ends and the generator returns.
generate_stream_exhausted(s) ==
    /\ Consuming(s, {"streaming"})
    /\ reqs' = [reqs EXCEPT ![s] =
            [@ EXCEPT !.st = "done", !.streamEnd = "returned",
                      !.stages = @ \o <<"Completed">>]]
    /\ jobs' = jobs \ {reqs[s].id}
    /\ UNCHANGED <<monitorVars, ModelConfig, backend, lifeVars, health, uuidCtr>>

\* generate_stream line 295: the engine raises; the generator has no handler
\* and chat_stream's `try` was left when the StreamingResponse was returned.
generate_stream_raises(s) ==
    /\ Consuming(s, {"streaming"})
    /\ reqs' = [reqs EXCEPT ![s] =
            [@ EXCEPT !.st = "done", !.streamEnd = "raised",
                      !.stages = @ \o <<"Failed">>,
                      !.raised = "engine failure"]]
    /\ jobs' = jobs \ {reqs[s].id}
    /\ UNCHANGED <<monitorVars, ModelConfig, backend, lifeVars, health, uuidCtr>>

\* The client closes the connection while the stream is open.  The handler
\* has no code for this: the framework stops iterating the generator, and
\* whether the engine then drops the job is decided by the libraries
\* (`aborted`).
client_disconnect(s) ==
    /\ Answering
    /\ reqs[s].st \in {"streaming", "yield_done"}
    /\ reqs' = [reqs EXCEPT ![s] =
            [@ EXCEPT !.st = "done", !.streamEnd = "cancelled",
                      !.stages = @ \o <<"Cancelled">>]]
    /\ \E aborted \in BOOLEAN :
         jobs' = IF aborted THEN jobs \ {reqs[s].id} ELSE jobs
    /\ UNCHANGED <<monitorVars, ModelConfig, backend, lifeVars, health, uuidCtr>>

\* The engine finishes a job nobody consumes any more (it reaches a stop
\* sequence or max_tokens).
engine_finishes_orphan(id) ==
    /\ id \in jobs
    /\ \A s \in Slots : reqs[s].id = id => reqs[s].st = "done"
    /\ jobs' = jobs \ {id}
    /\ UNCHANGED <<monitorVars, ModelConfig, backend, lifeVars, health, reqs, uuidCtr>>

-----------------------------------------------------------------------------
(* monitor.py: the pure parts of LLMMonitor                                *)
(*                                                                         *)
(* A dict is a record, `key in d` is key \in DOMAIN d; the gpu dict is the *)
(* sequence of its items in insertion order, each with its key, the Python *)
(* type of its value and the value.  Percentages are whole numbers, except *)
(* a device's memory_percent, which like GPUtil's memoryUtil is counted in *)
(* hundredths.                                                             *)

\* run_monitoring_loop(interval: int = 60)
INTERVAL == 60

\* save_metrics_to_file: the number of records kept
RECORDS_KEPT == 1000

\* test_api_performance: timeout=60 of the POST
PROBE_TIMEOUT == 60

EmptyDict == << >>

\* The value of an "error" key: str(e), or "HTTP <status_code>".
ErrorText(text, status_code) == [text |-> text, status_code |-> status_code]

\* get_system_metrics lines 49-60: the gpu dict
gpu_info(enum) ==
    IF enum.raises
    THEN <<[key |-> [name |-> "error", index |-> 0], type |-> "str",
            value |-> [str |-> "GPUtil failure"]]>>
    ELSE [i \in 1..Len(enum.gpus) |->
            [key |-> [name |-> "gpu", index |-> i - 1], type |-> "dict",
             value |-> [memory_used |-> enum.gpus[i].memoryUsed,
                        memory_total |-> enum.gpus[i].memoryTotal,
                        memory_percent |-> enum.gpus[i].memoryUtil * 100]]]

\* get_system_metrics(): cpu_percent, virtual_memory and disk_usage are
\* called in this order inside one `try`; when one of them raises
\* (host.raises names it) the function returns {"error": str(e)}.  Only the
\* GPU enumeration has a `try` of its own.
get_system_metrics(h) ==
    IF h.raises /= "none"
    THEN [error |-> ErrorText(h.raises, 0)]
    ELSE [cpu_percent |-> h.cpu_percent,
          memory |-> [percent |-> h.memory_percent],
          disk |-> [percent |-> h.disk_percent],
          gpu |-> gpu_info(h.gpu)]

\* get_api_health(): the JSON body of a 200 answer, {"error": "HTTP <code>"}
\* for any other status, {"error": str(e)} when the call raises.
get_api_health(answer) ==
    IF answer.kind = "raises" THEN [error |-> ErrorText("connection failure", 0)]
    ELSE IF answer.status_code = 200
    THEN [status |-> answer.status, model_loaded |-> answer.status = "healthy"]
    ELSE [error |-> ErrorText("HTTP", answer.status_code)]

test_api_performance_Timed(answer) ==
    IF answer.kind = "raises"
    THEN [error |-> ErrorText("connection failure", 0),
          response_time |-> answer.seconds]
    ELSE IF answer.status_code = 200
    THEN IF answer.json
         THEN [status |-> "success", response_time |-> answer.seconds]
         ELSE [error |-> ErrorText("invalid JSON", 0)]
    ELSE [error |-> ErrorText("HTTP", answer.status_code)]

\* test_api_performance(): response_time is the time the POST took; an
\* exception of the POST, of response.json() or of the reading of the result
\* gives the error dict, and so does a status other than 200.
test_api_performance(answer) ==
    IF answer.kind = "raises" THEN [error |-> ErrorText("connection failure", 0)]
    ELSE IF answer.status_code = 200
    THEN IF answer.json
         THEN [status |-> "success", response_time |-> answer.seconds]
         ELSE [error |-> ErrorText("invalid JSON", 0)]
    ELSE [error |-> ErrorText("HTTP", answer.status_code)]

\* One alert text: which condition, for a device its index, the number and
\* the status the text shows.
Alert(kind, index, value, status) ==
    [kind |-> kind, index |-> index, value |-> value, status |-> status]

check_alerts_NoGpu(m) ==
    LET system == m.system
        api == m.api_health
        perf == m.performance
    IN (IF Get(system, "cpu_percent", 0) > 90
        THEN <<Alert("cpu", 0, system.cpu_percent, "")>> ELSE << >>)
       \o (IF Get(Get(system, "memory", EmptyDict), "percent", 0) > 90
           THEN <<Alert("memory", 0, system.memory.percent, "")>> ELSE << >>)
       \o (IF Get(Get(system, "disk", EmptyDict), "percent", 0) > 90
           THEN <<Alert("disk", 0, system.disk.percent, "")>> ELSE << >>)
       \o (IF Get(api, "status", "None") /= "healthy"
           THEN <<Alert("api", 0, 0, Get(api, "status", "unknown"))>> ELSE << >>)
       \o (IF Get(perf, "response_time", 0) > 30
           THEN <<Alert("response_time", 0, perf.response_time, "")>> ELSE << >>)

\* check_alerts(metrics): the keys "system", "api_health" and "performance"
\* are in every report generate_report builds.
check_alerts(m) ==
    LET system == m.system
        api == m.api_health
        perf == m.performance
        gpu == Get(system, "gpu", << >>)
        over(item) == /\ item.type = "dict"
                      /\ "memory_percent" \in DOMAIN item.value
                      /\ item.value.memory_percent > 95 * 100
        devices == SelectSeq(gpu, over)
    IN (IF Get(system, "cpu_percent", 0) > 90
        THEN <<Alert("cpu", 0, system.cpu_percent, "")>> ELSE << >>)
       \o (IF Get(Get(system, "memory", EmptyDict), "percent", 0) > 90
           THEN <<Alert("memory", 0, system.memory.percent, "")>> ELSE << >>)
       \o (IF Get(Get(system, "disk", EmptyDict), "percent", 0) > 90
           THEN <<Alert("disk", 0, system.disk.percent, "")>> ELSE << >>)
       \o [i \in 1..Len(devices) |->
              Alert("gpu", devices[i].key.index,
                    devices[i].value.memory_percent, "")]
       \o (IF Get(api, "status", "None") /= "healthy"
           THEN <<Alert("api", 0, 0, Get(api, "status", "unknown"))>> ELSE << >>)
       \o (IF Get(perf, "response_time", 0) > 30
           THEN <<Alert("response_time", 0, perf.response_time, "")>> ELSE << >>)

\* How the file operations of save_metrics_to_file can go: all succeed;
\* opening the file for reading raises something other than
\* FileNotFoundError; json.dump raises after open(filename, 'w') has
\* truncated the file.
SaveOutcomes == {"ok", "read_raises", "dump_raises"}

\* data["records"][-n:]
LastRecords(records, n) ==
    IF Len(records) > n
    THEN SubSeq(records, Len(records) - n + 1, Len(records))
    ELSE records

save_metrics_to_file_KeepOldest(m, f, outcome) ==
    LET data == IF f.kind = "json" THEN f.records ELSE << >>
        appended == Append(data, m.timestamp)
        kept == IF Len(appended) > RECORDS_KEPT
                THEN SubSeq(appended, 1, RECORDS_KEPT) ELSE appended
    IN IF outcome = "read_raises" \/ f.kind = "no_records"
       THEN [file |-> f, saved |-> "failed", raised |-> FALSE]
       ELSE IF outcome = "dump_raises"
       THEN [file |-> [kind |-> "corrupt", records |-> << >>],
             saved |-> "failed", raised |-> FALSE]
       ELSE [file |-> [kind |-> "json", records |-> kept],
             saved |-> "written", raised |-> FALSE]

save_metrics_to_file_Uncaught(m, f, outcome) ==
    LET data == IF f.kind = "json" THEN f.records ELSE << >>
        appended == Append(data, m.timestamp)
        kept == LastRecords(appended, RECORDS_KEPT)
    IN IF outcome = "read_raises" \/ f.kind = "no_records"
       THEN [file |-> f, saved |-> "failed", raised |-> TRUE]
       ELSE IF outcome = "dump_raises"
       THEN [file |-> [kind |-> "corrupt", records |-> << >>],
             saved |-> "failed", raised |-> TRUE]
       ELSE [file |-> [kind |-> "json", records |-> kept],
             saved |-> "written", raised |-> FALSE]

\* save_metrics_to_file(metrics): a missing or undecodable file is read as
\* no records; the record (identified by its timestamp) is appended, the
\* last RECORDS_KEPT records are kept and written back.  Any exception is
\* logged and not raised again: that of a read that fails otherwise, that of
\* data["records"].append on a JSON document without a list under
\* "records" (both before the file is opened for writing), and that of the
\* write.
save_metrics_to_file(m, f, outcome) ==
    LET data == IF f.kind = "json" THEN f.records ELSE << >>
        appended == Append(data, m.timestamp)
        kept == LastRecords(appended, RECORDS_KEPT)
    IN IF outcome = "read_raises" \/ f.kind = "no_records"
       THEN [file |-> f, saved |-> "failed", raised |-> FALSE]
       ELSE IF outcome = "dump_raises"
       THEN [file |-> [kind |-> "corrupt", records |-> << >>],
             saved |-> "failed", raised |-> FALSE]
       ELSE [file |-> [kind |-> "json", records |-> kept],
             saved |-> "written", raised |-> FALSE]

-----------------------------------------------------------------------------
(* monitor.py: run_monitoring_loop                                         *)

NoHost ==
    [raises |-> "none", cpu_percent |-> 0, memory_percent |-> 0,
     disk_percent |-> 0, gpu |-> [raises |-> FALSE, gpus |-> << >>]]

\* The report before anything is collected.
NoMetrics ==
    [timestamp |-> 0, system |-> EmptyDict, api_health |-> EmptyDict,
     performance |-> EmptyDict]

\* One entry of monitor.log
LogEntry(level, text, alertList) ==
    [level |-> level, text |-> text, alerts |-> alertList]

\* generate_report line 125: get_system_metrics().  The iteration begins:
\* psutil.cpu_percent(interval=1) blocks for one second.
run_get_system_metrics(hosts) ==
    /\ pc = "report"
    /\ \E h \in hosts :
         /\ host' = h
         /\ metrics' = [NoMetrics EXCEPT !.system = get_system_metrics(h)]
         /\ logged' = IF h.raises /= "none"
                      THEN <<LogEntry("error", h.raises, << >>)>> ELSE << >>
    /\ pc' = "health"
    /\ alerts' = << >>
    /\ saved' = ""
    /\ elapsed' = 1
    /\ trace' = <<"get_system_metrics">>
    /\ sent' = << >>
    /\ UNCHANGED <<gatewayVars, tick, inflight, file, stopCause>>

run_get_api_health_send_NoWait ==
    /\ pc = "health"
    /\ pc' = "perf"
    /\ inflight' = inflight \cup {"GET /health"}
    /\ sent' = Append(sent, "GET /health")
    /\ UNCHANGED <<gatewayVars, tick, host, metrics, alerts, logged, saved,
                   file, stopCause, elapsed, trace>>

\* get_api_health line 86: session.get is issued; the call blocks until the
\* answer or an exception.
run_get_api_health_send ==
    /\ pc = "health"
    /\ pc' = "health_wait"
    /\ inflight' = inflight \cup {"GET /health"}
    /\ sent' = Append(sent, "GET /health")
    /\ UNCHANGED <<gatewayVars, tick, host, metrics, alerts, logged, saved,
                   file, stopCause, elapsed, trace>>

run_get_api_health_Retries(answers) ==
    /\ pc = "health_wait"
    /\ "GET /health" \in inflight
    /\ \E answer \in answers :
         /\ metrics' = [metrics EXCEPT !.api_health = get_api_health(answer)]
         /\ elapsed' = elapsed + answer.seconds
         /\ pc' = IF answer.kind = "raises" THEN "health" ELSE "perf"
    /\ inflight' = inflight \ {"GET /health"}
    /\ trace' = Append(trace, "get_api_health")
    /\ UNCHANGED <<gatewayVars, sent, tick, host, alerts, logged, saved, file,
                   stopCause>>

\* get_api_health lines 87-92: the call returns.
run_get_api_health(answers) ==
    /\ pc = "health_wait"
    /\ "GET /health" \in inflight
    /\ \E answer \in answers :
         /\ metrics' = [metrics EXCEPT !.api_health = get_api_health(answer)]
         /\ elapsed' = elapsed + answer.seconds
    /\ inflight' = inflight \ {"GET /health"}
    /\ pc' = "perf"
    /\ trace' = Append(trace, "get_api_health")
    /\ UNCHANGED <<gatewayVars, sent, tick, host, alerts, logged, saved, file,
                   stopCause>>

\* test_api_performance lines 102-107: session.post is issued and blocks.
run_test_api_performance_send ==
    /\ pc = "perf"
    /\ pc' = "perf_wait"
    /\ inflight' = inflight \cup {"POST /chat"}
    /\ sent' = Append(sent, "POST /chat")
    /\ UNCHANGED <<gatewayVars, tick, host, metrics, alerts, logged, saved,
                   file, stopCause, elapsed, trace>>

\* test_api_performance lines 108-121 and generate_report lines 129-134: the
\* probe returns and the report is assembled; its timestamp is the time of
\* assembly, which identifies the record.
run_test_api_performance(answers) ==
    /\ pc = "perf_wait"
    /\ "POST /chat" \in inflight
    /\ \E answer \in answers :
         /\ metrics' = [metrics EXCEPT
                          !.performance = test_api_performance(answer),
                          !.timestamp = tick + 1]
         /\ elapsed' = elapsed + answer.seconds
    /\ inflight' = inflight \ {"POST /chat"}
    /\ pc' = "log"
    /\ trace' = Append(trace, "test_api_performance")
    /\ UNCHANGED <<gatewayVars, sent, tick, host, alerts, logged, saved, file,
                   stopCause>>

\* run_monitoring_loop line 247: log_metrics(metrics) writes one info entry;
\* every number it formats has a numeric default.
run_log_metrics ==
    /\ pc = "log"
    /\ logged' = Append(logged, LogEntry("info", "metrics", << >>))
    /\ pc' = "save"
    /\ trace' = Append(trace, "log_metrics")
    /\ UNCHANGED <<gatewayVars, sent, tick, host, metrics, inflight, alerts, saved,
                   file, stopCause, elapsed>>

\* run_monitoring_loop line 250: save_metrics_to_file(metrics).  An
\* exception leaving the call would end the loop in `except Exception`
\* (lines 262-263).
run_save_metrics_to_file ==
    /\ pc = "save"
    /\ \E outcome \in SaveOutcomes :
         LET r == save_metrics_to_file(metrics, file, outcome)
         IN /\ file' = r.file
            /\ saved' = r.saved
            /\ logged' = IF r.saved = "failed"
                         THEN Append(logged, LogEntry("error", outcome, << >>))
                         ELSE logged
            /\ pc' = IF r.raised THEN "stopped" ELSE "alerts"
            /\ stopCause' = IF r.raised THEN "Exception" ELSE stopCause
    /\ trace' = Append(trace, "save_metrics_to_file")
    /\ UNCHANGED <<gatewayVars, sent, tick, host, metrics, inflight, alerts, elapsed>>

\* run_monitoring_loop lines 253-255: check_alerts(metrics), and one warning
\* entry with all alerts joined when the list is not empty.
run_check_alerts ==
    /\ pc = "alerts"
    /\ alerts' = check_alerts(metrics)
    /\ logged' = IF check_alerts(metrics) /= << >>
                 THEN Append(logged,
                             LogEntry("warning", "alerts", check_alerts(metrics)))
                 ELSE logged
    /\ pc' = "sleep"
    /\ trace' = Append(trace, "check_alerts")
    /\ UNCHANGED <<gatewayVars, sent, tick, host, metrics, inflight, saved, file,
                   stopCause, elapsed>>

\* run_monitoring_loop line 258: time.sleep(interval), then the next
\* iteration of `while True`, which reads none of the values of this one.
run_sleep ==
    /\ pc = "sleep"
    /\ tick < MaxTicks
    /\ tick' = tick + 1
    /\ elapsed' = elapsed + INTERVAL
    /\ pc' = "report"
    /\ trace' = Append(trace, "sleep")
    /\ host' = NoHost
    /\ metrics' = NoMetrics
    /\ alerts' = << >>
    /\ logged' = << >>
    /\ saved' = ""
    /\ UNCHANGED <<gatewayVars, sent, inflight, file, stopCause>>

\* run_monitoring_loop lines 260-261: the operator presses Ctrl-C.  No
\* `except Exception` catches KeyboardInterrupt, so whatever call is running
\* is abandoned and the function returns; its locals are gone.
KeyboardInterrupt ==
    /\ pc /= "stopped"
    /\ pc' = "stopped"
    /\ stopCause' = "KeyboardInterrupt"
    /\ inflight' = {}
    /\ host' = NoHost
    /\ metrics' = NoMetrics
    /\ alerts' = << >>
    /\ logged' = <<LogEntry("info", "interrupted", << >>)>>
    /\ saved' = ""
    /\ elapsed' = 0
    /\ trace' = << >>
    /\ sent' = << >>
    /\ UNCHANGED <<gatewayVars, tick, file>>

-----------------------------------------------------------------------------
(* Inputs and specifications                                               *)

\* Symbols of message contents.
Hi == <<"h", "i">>

Conversations == {<<[role |-> "user", content |-> Hi]>>}

\* The requests of the gateway's specification: no overrides, with and
\* without the stream flag.
ChatRequests ==
    {ChatRequest(c, None, None, None, stream) :
        c \in Conversations, stream \in BOOLEAN}

\* metrics.json does not exist.
MissingFile == [kind |-> "missing", records |-> << >>]

\* metrics.json as an earlier run of the monitor left it: n records, whose
\* timestamps lie before this run's.
PreviousLog(n) == [kind |-> "json", records |-> [i \in 1..n |-> i - n]]

\* metrics.json is not a JSON document.
UndecodableFile == [kind |-> "corrupt", records |-> << >>]

\* metrics.json is a JSON document without a list under "records".
NoRecordsFile == [kind |-> "no_records", records |-> << >>]

\* run_monitoring_loop is about to enter its loop.
MonitorStart(files) ==
    /\ pc = "report"
    /\ tick = 0
    /\ host = NoHost
    /\ metrics = NoMetrics
    /\ inflight = {}
    /\ alerts = << >>
    /\ logged = << >>
    /\ saved = ""
    /\ file \in files
    /\ stopCause = ""
    /\ elapsed = 0
    /\ trace = << >>
    /\ sent = << >>

\* The gateway process after its module is imported.
GatewayInit ==
    /\ backend \in Backends
    /\ phase = "created"
    /\ model = "None"
    /\ tokenizer = "None"
    /\ engine = "None"
    /\ engineRunning = FALSE
    /\ cacheEmptied = FALSE
    /\ shutdownRaised = FALSE
    /\ health = NoHealth
    /\ reqs = [s \in Slots |-> IdleReq]
    /\ uuidCtr = 0
    /\ jobs = {}
    /\ ModelConfig = ClassAttributes

Init == GatewayInit /\ MonitorStart({MissingFile})

Lifecycle == StartupT \/ StartupV \/ ShutdownT \/ ShutdownV

Handlers(slots, requests) ==
    \/ \E s \in slots, request \in requests :
         chatT(s, request) \/ chat(s, request) \/ chat_stream(s, request)
    \/ \E s \in slots :
         \/ chat_next(s) \/ chat_exhausted(s) \/ chat_raises(s)
         \/ generate_stream_next(s) \/ generate_stream_done(s)
         \/ generate_stream_exhausted(s) \/ generate_stream_raises(s)
         \/ client_disconnect(s)
    \/ \E id \in 1..MaxReq : engine_finishes_orphan(id)

Next == Lifecycle \/ Handlers(Slots, ChatRequests)

\* The gateway with MaxReq client connections, whose requests the vLLM
\* backend handles concurrently.
Spec == Init /\ [][Next]_vars

\* Two client connections whose requests the vLLM backend handles
\* concurrently, with engine jobs of up to MaxOut outputs.
NextPair == Lifecycle \/ Handlers({1, 2}, ChatRequests)

SpecPair == Init /\ [][NextPair]_vars

\* One client connection, the lifecycle and the health endpoint.
NextServer == Lifecycle \/ health_check \/ Handlers({1}, ChatRequests)

SpecServer == Init /\ [][NextServer]_vars


\* Override values a client can send: absent, outside the domain, zero, and
\* inside the domain (temperature and top_p in tenths).
MaxTokensSamples == {None, Some(-1), Some(0), Some(16)}
TemperatureSamples == {None, Some(-5), Some(0), Some(12)}
TopPSamples == {None, Some(-1), Some(0), Some(5), Some(10), Some(15)}

OverrideRequests ==
    {ChatRequest(c, mt, t, p, FALSE) :
        c \in Conversations, mt \in MaxTokensSamples,
        t \in TemperatureSamples, p \in TopPSamples}

\* A request without overrides, one that overrides max_tokens alone and one
\* that overrides all three sampling values.
LeakRequests ==
    {ChatRequest(c, None, None, None, FALSE) : c \in Conversations}
    \cup {ChatRequest(c, Some(16), None, None, FALSE) : c \in Conversations}
    \cup {ChatRequest(c, Some(32), Some(12), Some(5), FALSE) : c \in Conversations}

\* Two client connections, with and without overrides, in any order and
\* interleaving.
NextLeak == Lifecycle \/ Handlers({1, 2}, LeakRequests)

SpecLeak == Init /\ [][NextLeak]_vars

\* JSON bodies that carry keys ChatRequest does not declare.
RequestBodies ==
    {[messages |-> <<[role |-> "user", content |-> Hi]>>,
      repetition_penalty |-> 20],
     [messages |-> <<[role |-> "user", content |-> Hi]>>,
      stop |-> {"h"}],
     [messages |-> <<[role |-> "user", content |-> Hi]>>,
      max_tokens |-> 16, temperature |-> 12, top_p |-> 5,
      repetition_penalty |-> 20, stop |-> {"h"}, eos_token_id |-> 1]}

\* One client connection, every combination of overrides.
NextParams ==
    \/ Lifecycle
    \/ Handlers({1}, OverrideRequests
                        \cup {ParseChatRequest(b) : b \in RequestBodies})

SpecParams == Init /\ [][NextParams]_vars

\* Messages a client can send: the two chat roles, a role the formatter
\* does not know, a message dict without a "content" key and one without a
\* "role" key.
MessageSamples ==
    {[role |-> "user", content |-> Hi],
     [role |-> "assistant", content |-> <<"o", "k">>],
     [role |-> "system", content |-> Hi],
     [role |-> "user"],
     [content |-> Hi]}

\* Conversations of up to MaxTurns messages, the empty list included.
FormatConversations == UNION {[1..n -> MessageSamples] : n \in 0..MaxTurns}

FormatRequests ==
    {ChatRequest(c, None, None, None, FALSE) : c \in FormatConversations}

\* One client connection, every conversation of FormatConversations.
NextFormat == Lifecycle \/ Handlers({1}, FormatRequests)

SpecFormat == Init /\ [][NextFormat]_vars

\* Host readings of the monitor: every combination of readings below and
\* above the alert thresholds with every GPU enumeration, and for each of
\* the three psutil calls a host on which that call raises.
MonitorHosts ==
    {[raises |-> "none", cpu_percent |-> c, memory_percent |-> m,
      disk_percent |-> d, gpu |-> g] :
        c \in {90, 95}, m \in {50, 91}, d \in {10, 91}, g \in GpuEnumerations}
    \cup
    {[raises |-> r, cpu_percent |-> 95, memory_percent |-> 50,
      disk_percent |-> 10, gpu |-> [raises |-> FALSE, gpus |-> << >>]] :
        r \in {"cpu_percent", "virtual_memory", "disk_usage"}}

\* Answers of GET /health: the call raises, a snapshot, an error status.
HealthAnswers ==
    {[kind |-> "raises", status_code |-> 0, status |-> "", seconds |-> 0],
     [kind |-> "http", status_code |-> 200, status |-> "healthy", seconds |-> 0],
     [kind |-> "http", status_code |-> 200, status |-> "unhealthy", seconds |-> 0],
     [kind |-> "http", status_code |-> 500, status |-> "", seconds |-> 0]}

\* Answers of the probe POST /chat: a timeout, a fast and a slow success,
\* the gateway's 503, a slow 500 and a slow 200 whose body is not JSON.
ProbeAnswers ==
    {[kind |-> "raises", status_code |-> 0, json |-> FALSE,
      seconds |-> PROBE_TIMEOUT],
     [kind |-> "http", status_code |-> 200, json |-> TRUE, seconds |-> 5],
     [kind |-> "http", status_code |-> 200, json |-> TRUE, seconds |-> 35],
     [kind |-> "http", status_code |-> 503, json |-> TRUE, seconds |-> 1],
     [kind |-> "http", status_code |-> 500, json |-> TRUE, seconds |-> 45],
     [kind |-> "http", status_code |-> 200, json |-> FALSE, seconds |-> 40]}

\* The monitor process: one pass of the loop body per iteration, and the
\* operator's interrupt.
Monitor(hosts, healthAnswers, probeAnswers) ==
    \/ run_get_system_metrics(hosts)
    \/ run_get_api_health_send
    \/ run_get_api_health(healthAnswers)
    \/ run_test_api_performance_send
    \/ run_test_api_performance(probeAnswers)
    \/ run_log_metrics
    \/ run_save_metrics_to_file
    \/ run_check_alerts
    \/ run_sleep
    \/ KeyboardInterrupt

NextMonitor == Monitor(MonitorHosts, HealthAnswers, ProbeAnswers)

InitMonitor ==
    /\ MonitorStart({MissingFile, PreviousLog(1)})
    /\ GatewayInit

\* The monitor against every host reading and every answer of the gateway.
SpecMonitor == InitMonitor /\ [][NextMonitor]_vars

\* One host reading and one answer per call, and a metrics.json that is
\* about to reach the number of records kept.
LogHosts ==
    {[raises |-> "none", cpu_percent |-> 95, memory_percent |-> 50,
      disk_percent |-> 10, gpu |-> [raises |-> FALSE, gpus |-> << >>]]}

LogHealthAnswers ==
    {[kind |-> "http", status_code |-> 200, status |-> "healthy", seconds |-> 0]}

LogProbeAnswers ==
    {[kind |-> "http", status_code |-> 200, json |-> TRUE, seconds |-> 5]}

NextLog == Monitor(LogHosts, LogHealthAnswers, LogProbeAnswers)

InitLog ==
    /\ MonitorStart({MissingFile, UndecodableFile, NoRecordsFile,
                     PreviousLog(RECORDS_KEPT - 1),
                     PreviousLog(RECORDS_KEPT)})
    /\ GatewayInit

SpecLog == InitLog /\ [][NextLog]_vars

\* The gateway with one connection and the monitor side by side, the
\* monitor against every answer to its two calls.
NextRetry ==
    \/ Lifecycle
    \/ Handlers({1}, ChatRequests)
    \/ Monitor(LogHosts, HealthAnswers, ProbeAnswers)

SpecRetry == Init /\ [][NextRetry]_vars

-----------------------------------------------------------------------------
(* Properties                                                              *)

\* The delta.content values a client collects from a stream, as
\* LLMAPIClient._stream_chat does: the [DONE] frame is skipped, and a chunk
\* contributes its delta's content when it has one that is not empty.
RECURSIVE StreamedText(_)
StreamedText(frames) ==
    IF frames = << >>
    THEN << >>
    ELSE LET f == Head(frames)
             content == IF f.kind /= "done" /\ f.hasContent THEN f.content ELSE << >>
         IN content \o StreamedText(Tail(frames))

\* The stream of connection s ran to its [DONE] frame.
StreamCompleted(s) ==
    /\ reqs[s].route = "/chat/stream"
    /\ reqs[s].streamEnd = "returned"
    /\ reqs[s].frames /= << >>
    /\ reqs[s].frames[Len(reqs[s].frames)].kind = "done"

\* C1: a completed stream and a successful non-streaming chat with the same
\* request and the same sequence of engine outputs carry the same text: the
\* concatenation of the stream's delta.content values equals the chat's
\* `response`.
C1_StreamEqualsChat ==
    \A s1, s2 \in Slots :
        ( /\ reqs[s1].route = "/chat"
          /\ reqs[s1].resp.code = 200
          /\ StreamCompleted(s2)
          /\ reqs[s1].req = reqs[s2].req
          /\ reqs[s1].seen = reqs[s2].seen )
        => StreamedText(reqs[s2].frames) = reqs[s1].resp.response

\* The three sampling values handed to the backend for a request.
Handed(r) ==
    IF backend = "transformers"
    THEN [max_tokens |-> r.sampling[1].max_new_tokens,
          temperature |-> r.sampling[1].temperature,
          top_p |-> r.sampling[1].top_p]
    ELSE [max_tokens |-> r.sampling[1].max_tokens,
          temperature |-> r.sampling[1].temperature,
          top_p |-> r.sampling[1].top_p]

\* `handed` is the override when the override is a value of its domain, and
\* the default when there is no override.
Resolved(override, InDomain(_), default, handed) ==
    /\ (override = None => handed = default)
    /\ (override /= None /\ InDomain(override[1]) => handed = override[1])

\* C2: the configuration handed to the backend carries each of max_tokens,
\* temperature and top_p as the request's value when that is a non-null value
\* of the valid domain, and as the server default when the field is null.
C2_OverridesResolved ==
    \A s \in Slots :
        reqs[s].sampling /= None =>
            LET r == reqs[s]
            IN /\ Resolved(r.req.max_tokens, MaxTokensInDomain,
                           MAX_TOKENS, Handed(r).max_tokens)
               /\ Resolved(r.req.temperature, TemperatureInDomain,
                           TEMPERATURE, Handed(r).temperature)
               /\ Resolved(r.req.top_p, TopPInDomain,
                           TOP_P, Handed(r).top_p)

\* An override of the request is present and outside its domain.
OutOfDomain(request) ==
    \/ request.max_tokens /= None /\ ~MaxTokensInDomain(request.max_tokens[1])
    \/ request.temperature /= None /\ ~TemperatureInDomain(request.temperature[1])
    \/ request.top_p /= None /\ ~TopPInDomain(request.top_p[1])

\* C3: a request with an override outside its domain, arriving at a loaded
\* backend, is answered with a client-class error (4xx) and causes no
\* generate call on the backend.
C3_InvalidParameterRejected ==
    \A s \in Slots :
        ( /\ reqs[s].st /= "idle"
          /\ reqs[s].loaded
          /\ OutOfDomain(reqs[s].req) )
        => /\ reqs[s].backendCalls = 0
           /\ reqs[s].st = "done"
           /\ reqs[s].resp.code \in 400..499

\* The kinds of the frames of a stream, in emission order.
FrameKinds(frames) == [i \in DOMAIN frames |-> frames[i].kind]

\* The engine signalled completion to the handler of connection s.
EngineFinished(s) == \E i \in DOMAIN reqs[s].seen : reqs[s].seen[i].finished

\* C4: the frames of a stream are always content frames, then at most one
\* finish frame, then at most one [DONE] frame, with nothing after [DONE];
\* and a stream whose engine job ran to completion and whose generator
\* returned consists of content frames followed by exactly one finish frame
\* and exactly one final [DONE] frame.
C4_StreamShape ==
    \A s \in Slots :
        LET k == FrameKinds(reqs[s].frames)
            n == Len(reqs[s].frames)
        IN /\ \A i \in 1..n :
                /\ k[i] = "done" => i = n /\ i > 1 /\ k[i - 1] = "finish"
                /\ k[i] = "finish" => i >= n - 1
                /\ k[i] = "content" => \A j \in 1..i : k[j] = "content"
           /\ ( /\ reqs[s].route = "/chat/stream"
                /\ reqs[s].streamEnd = "returned"
                /\ EngineFinished(s) )
              => /\ n >= 2
                 /\ k[n] = "done"
                 /\ k[n - 1] = "finish"
                 /\ \A i \in 1..(n - 2) : k[i] = "content"

\* C4 witness: a stream that returned after the engine finished, with a
\* content frame before the finish frame.
C4_Witness ==
    \E s \in Slots :
        /\ reqs[s].streamEnd = "returned"
        /\ EngineFinished(s)
        /\ Len(reqs[s].frames) >= 3
        /\ reqs[s].frames[1].kind = "content"

\* C5: on the transformers backend a request with stream: true that reaches
\* a loaded model is never answered with an ordinary (non-streaming) JSON
\* chat response.
C5_StreamRequestNotBlocking ==
    \A s \in Slots :
        ( /\ backend = "transformers"
          /\ reqs[s].st = "done"
          /\ reqs[s].loaded
          /\ reqs[s].req.stream )
        => reqs[s].resp.kind /= "json"

\* The handle loaded at startup is no longer held.
HandleReleased ==
    IF backend = "transformers"
    THEN model = "None" /\ tokenizer = "None" /\ cacheEmptied
    ELSE ~engineRunning

\* C7: after the shutdown phase the model/engine handle is released and the
\* phase has not raised.
C7_ShutdownReleasesHandle ==
    phase = "stopped" => HandleReleased /\ ~shutdownRaised

\* C8: every answer of GET /health is a snapshot (HTTP 200) with status,
\* model_loaded, system_memory and a gpu_memory that is the per-device
\* mapping or the error marker.
C8_HealthNeverFails ==
    health.code /= 0 =>
        /\ health.code = 200
        /\ health.status \in {"healthy", "unhealthy"}
        /\ \A i \in DOMAIN health.gpu_memory :
               health.gpu_memory[i].key.name \in {"gpu", "error"}

\* C9: every snapshot health_check returns has status "healthy" exactly when
\* the handle is non-null and model_loaded true exactly when the status is
\* "healthy".
C9_StatusIffHandle ==
    [][health_check =>
        (health'.code = 200 =>
            /\ (health'.status = "healthy") <=> (Handle /= "None")
            /\ health'.model_loaded <=> (health'.status = "healthy")
            /\ health'.status \in {"healthy", "unhealthy"})]_vars

\* C9 witness: a snapshot taken with no model loaded: unhealthy, not loaded.
C9_Witness ==
    /\ health.code = 200
    /\ Handle = "None"
    /\ health.status = "unhealthy"
    /\ ~health.model_loaded

\* C10: a chat or stream request that arrives while the handle is not loaded
\* is answered 503 at once, with no prompt formatted, no sampling
\* configuration built and no backend call.
C10_NotLoaded503 ==
    \A s \in Slots :
        (reqs[s].st /= "idle" /\ ~reqs[s].loaded)
        => /\ reqs[s].st = "done"
           /\ reqs[s].resp.code = 503
           /\ ~reqs[s].formatted
           /\ reqs[s].sampling = None
           /\ reqs[s].backendCalls = 0
           /\ reqs[s].id \notin jobs

\* C10 witness: a stream request on the vLLM backend answered 503.
C10_Witness ==
    \E s \in Slots :
        /\ reqs[s].route = "/chat/stream"
        /\ ~reqs[s].loaded
        /\ reqs[s].resp.code = 503

\* C11: a non-streaming chat request during which the backend raised (or the
\* engine's result stream ended with no finished output) is answered with an
\* HTTPException of status 500 whose detail carries the text of the cause; it
\* is never left unanswered and never answered with a success.
C11_FailureTranslated ==
    \A s \in Slots :
        (reqs[s].route = "/chat" /\ reqs[s].raised /= "")
        => /\ reqs[s].st = "done"
           /\ reqs[s].resp.kind = "error"
           /\ reqs[s].resp.code = 500
           /\ \E i \in DOMAIN reqs[s].resp.detail :
                  reqs[s].resp.detail[i] = reqs[s].raised

\* C11 witness: the engine's result stream of a /chat request ended with no
\* finished output after one unfinished output, and the request was answered 500.
C11_Witness ==
    \E s \in Slots :
        /\ reqs[s].route = "/chat"
        /\ reqs[s].backendCalls = 1
        /\ Len(reqs[s].seen) = 1
        /\ reqs[s].raised = "500: generation failed"
        /\ reqs[s].resp.code = 500

C13_UsageTotals ==
    \A s \in Slots :
        (reqs[s].resp.code = 200 /\ reqs[s].resp.kind = "json")
        => /\ reqs[s].usage.total_tokens =
                  reqs[s].usage.prompt_tokens + reqs[s].usage.completion_tokens
           /\ reqs[s].usage.prompt_tokens >= 0
           /\ reqs[s].usage.completion_tokens >= 0

\* C13 witness: a successful answer of the transformers backend with tokens
\* on both sides.
C13_Witness ==
    \E s \in Slots :
        /\ backend = "transformers"
        /\ reqs[s].resp.code = 200
        /\ reqs[s].resp.kind = "json"
        /\ reqs[s].usage.prompt_tokens > 0
        /\ reqs[s].usage.completion_tokens > 0

\* The role-tagged block of one turn: start marker, role, newline, content,
\* end marker, newline.
RoleBlock(message) ==
    <<"<|im_start|>", message.role, "\n">>
    \o (IF "content" \in DOMAIN message THEN message.content ELSE << >>)
    \o <<"<|im_end|>", "\n">>

\* The blocks of the turns from position i on, in input order.
RECURSIVE BlocksFrom(_, _)
BlocksFrom(messages, i) ==
    IF i > Len(messages)
    THEN << >>
    ELSE RoleBlock(messages[i]) \o BlocksFrom(messages, i + 1)

\* Every turn has role user or assistant.
ChatRolesOnly(messages) ==
    \A i \in DOMAIN messages :
        /\ "role" \in DOMAIN messages[i]
        /\ messages[i].role \in {"user", "assistant"}

\* C14: for a conversation whose turns all have role user or assistant, the
\* prompt a handler formats is one role-tagged block per turn, in input
\* order, followed by the open assistant marker (start marker, "assistant",
\* newline) and nothing else.
C14_FormatBlocks ==
    \A s \in Slots :
        (reqs[s].formatted /\ ChatRolesOnly(reqs[s].req.messages))
        => reqs[s].prompt =
              BlocksFrom(reqs[s].req.messages, 1)
              \o <<"<|im_start|>", "assistant", "\n">>

\* C14 witness: a formatted conversation of a user turn followed by an
\* assistant turn.
C14_Witness ==
    \E s \in Slots :
        /\ reqs[s].formatted
        /\ Len(reqs[s].req.messages) = 2
        /\ ChatRolesOnly(reqs[s].req.messages)
        /\ reqs[s].req.messages[1].role = "user"
        /\ reqs[s].req.messages[2].role = "assistant"
        /\ Len(reqs[s].prompt) = 15

TriggeredAlerts(m) ==
    LET system == m.system
        api == m.api_health
        perf == m.performance
        has(d, key) == key \in DOMAIN d
    IN (IF has(system, "cpu_percent") /\ system.cpu_percent > 90
        THEN {Alert("cpu", 0, system.cpu_percent, "")} ELSE {})
       \cup (IF has(system, "memory") /\ system.memory.percent > 90
             THEN {Alert("memory", 0, system.memory.percent, "")} ELSE {})
       \cup (IF has(system, "disk") /\ system.disk.percent > 90
             THEN {Alert("disk", 0, system.disk.percent, "")} ELSE {})
       \cup (IF has(system, "gpu")
             THEN {Alert("gpu", system.gpu[i].key.index,
                         system.gpu[i].value.memory_percent, "") :
                     i \in {j \in DOMAIN system.gpu :
                              /\ system.gpu[j].type = "dict"
                              /\ system.gpu[j].value.memory_percent > 9500}}
             ELSE {})
       \cup (IF has(api, "status")
             THEN IF api.status = "healthy"
                  THEN {} ELSE {Alert("api", 0, 0, api.status)}
             ELSE {Alert("api", 0, 0, "unknown")})
       \cup (IF has(perf, "response_time") /\ perf.response_time > 30
             THEN {Alert("response_time", 0, perf.response_time, "")} ELSE {})

\* The warning entries among the log entries of this iteration.
Warnings == SelectSeq(logged, LAMBDA e : e.level = "warning")

\* The spec's example: CPU 95, memory 50, disk 10, no device information,
\* health healthy, probe latency 5 seconds.
ExampleReport ==
    /\ "cpu_percent" \in DOMAIN metrics.system
    /\ metrics.system.cpu_percent = 95
    /\ metrics.system.memory.percent = 50
    /\ metrics.system.disk.percent = 10
    /\ metrics.system.gpu = << >>
    /\ "status" \in DOMAIN metrics.api_health
    /\ metrics.api_health.status = "healthy"
    /\ "response_time" \in DOMAIN metrics.performance
    /\ metrics.performance.response_time = 5

\* C16: once check_alerts has run in an iteration, its list holds exactly
\* one alert for every triggered condition and nothing else, the example
\* report yields the CPU alert alone, and the iteration's log has one
\* warning entry carrying all the alerts when there is any alert and no
\* warning entry otherwise.
C16_AlertsExact ==
    pc = "sleep" =>
        /\ Len(alerts) = Cardinality(TriggeredAlerts(metrics))
        /\ {alerts[i] : i \in DOMAIN alerts} = TriggeredAlerts(metrics)
        /\ (ExampleReport => alerts = <<Alert("cpu", 0, 95, "")>>)
        /\ Len(Warnings) = IF alerts = << >> THEN 0 ELSE 1
        /\ \A i \in DOMAIN Warnings : Warnings[i].alerts = alerts

\* C16 witness: check_alerts has run on the example report.
C16_Witness ==
    /\ pc = "sleep"
    /\ ExampleReport
    /\ Len(alerts) = 1
    /\ Len(Warnings) = 1

\* C17: when one of the host readings of get_system_metrics raises, the
\* system part of the report still carries the value of every other reading.
C17_MetricsFailIndependently ==
    pc \in {"health", "health_wait", "perf", "perf_wait",
            "log", "save", "alerts", "sleep"} =>
        LET system == metrics.system
        IN /\ host.raises /= "cpu_percent"
              => /\ "cpu_percent" \in DOMAIN system
                 /\ system.cpu_percent = host.cpu_percent
           /\ host.raises /= "virtual_memory"
              => /\ "memory" \in DOMAIN system
                 /\ system.memory.percent = host.memory_percent
           /\ host.raises /= "disk_usage"
              => /\ "disk" \in DOMAIN system
                 /\ system.disk.percent = host.disk_percent
           /\ "gpu" \in DOMAIN system

\* The report of this iteration is assembled.
Assembled == pc \in {"log", "save", "alerts", "sleep"}

\* C18: the monitor loop ends only by the operator's interrupt, and however
\* the host readings, the health call, the probe and the save went, the
\* report of the iteration is assembled with its three parts, a failed part
\* being a dict with an "error" key.
C18_LoopSurvivesFailures ==
    /\ pc = "stopped" => stopCause = "KeyboardInterrupt"
    /\ Assembled =>
          /\ metrics.timestamp = tick + 1
          /\ DOMAIN metrics.system /= {}
          /\ DOMAIN metrics.api_health /= {}
          /\ DOMAIN metrics.performance /= {}
          /\ host.raises /= "none" => "error" \in DOMAIN metrics.system
          /\ "status" \in DOMAIN metrics.api_health
             \/ "error" \in DOMAIN metrics.api_health
          /\ "response_time" \in DOMAIN metrics.performance
             \/ "error" \in DOMAIN metrics.performance

\* C18 witness: the loop is in a later iteration after a save that left the
\* file undecodable, every probe of this iteration has failed and so has its
\* save, and the loop is about to sleep.
C18_Witness ==
    /\ tick >= 1
    /\ pc = "sleep"
    /\ file.kind = "corrupt"
    /\ saved = "failed"
    /\ "error" \in DOMAIN metrics.system
    /\ "error" \in DOMAIN metrics.api_health
    /\ "error" \in DOMAIN metrics.performance

\* The calls of an iteration without log_metrics.
Steps == SelectSeq(trace, LAMBDA c : c /= "log_metrics")

\* The order of the spec: system metrics, health, probe (and assembly),
\* alerts, append to the rolling log, sleep.
SpecOrder ==
    <<"get_system_metrics", "get_api_health", "test_api_performance",
      "check_alerts", "save_metrics_to_file", "sleep">>

\* C19: the calls an iteration has completed are always the first ones of
\* the order system metrics, health, probe, alerts, append, sleep; so the
\* alerts of a record are evaluated before the record is appended.
C19_AlertsBeforeAppend ==
    /\ Len(Steps) <= Len(SpecOrder)
    /\ Steps = SubSeq(SpecOrder, 1, Len(Steps))

\* C20: the monitor never has two HTTP calls waiting for an answer; a new
\* iteration starts only from the sleep of the one before, after the health
\* call and the probe of that iteration have returned, and INTERVAL seconds
\* after its work ended.
C20_NoOverlap ==
    [][/\ Cardinality(inflight') <= 1
       /\ pc' = "report" => inflight' = {}
       /\ tick' /= tick
          => /\ pc = "sleep"
             /\ inflight = {}
             /\ \E i \in DOMAIN trace : trace[i] = "get_api_health"
             /\ \E i \in DOMAIN trace : trace[i] = "test_api_performance"
             /\ elapsed' = elapsed + INTERVAL]_vars

\* C20 witness: the work of an iteration took longer than INTERVAL (the
\* probe ran into its timeout), and the next iteration starts INTERVAL after
\* that work, with no call in flight.
C20_Witness ==
    /\ pc = "report"
    /\ tick >= 1
    /\ inflight = {}
    /\ elapsed > 2 * INTERVAL


-----------------------------------------------------------------------------
(* Correlation ids, handles, request phases, retries                       *)

\* Connection s handed a job to the engine.
Submitted(s) == backend = "vllm" /\ reqs[s].backendCalls > 0

\* C21: on the vLLM backend every request handed to the engine has a
\* correlation id no other request has, whatever the interleaving; the
\* outputs a handler consumes all come from the job of its own id, the
\* response of a chat is the text of the last of them, and every frame of a
\* stream carries the stream's id.
C21_OwnIdOwnOutputs ==
    \A s \in Slots :
        Submitted(s) =>
            /\ reqs[s].id /= 0
            /\ \A t \in Slots \ {s} : Submitted(t) => reqs[t].id /= reqs[s].id
            /\ reqs[s].sources \subseteq {reqs[s].id}
            /\ \A i \in 1..Len(reqs[s].frames) :
                   reqs[s].frames[i].id = reqs[s].id
            /\ (reqs[s].route = "/chat" /\ reqs[s].resp.code = 200)
                   => reqs[s].resp.response = LastText(reqs[s].seen)

\* Two requests are in flight at once, a stream that has yielded a frame and
\* a chat that has consumed an output.
C21_Witness ==
    \E s, t \in Slots :
        /\ Submitted(s) /\ Submitted(t)
        /\ reqs[s].st = "streaming" /\ reqs[s].frames /= << >>
        /\ reqs[t].st = "generating" /\ reqs[t].seen /= << >>
        /\ {reqs[s].id, reqs[t].id} \subseteq jobs


\* The request of connection s ended in a failure.
Failed(s) ==
    /\ reqs[s].st = "done"
    /\ \/ reqs[s].resp.code \in {500, 503}
       \/ reqs[s].streamEnd = "raised"

\* C22: no step of a chat or stream handler, successful or failed, changes
\* the shared handle (model and tokenizer, engine); the job of a request that
\* has failed is no longer in the engine.
C22_HandleUntouched ==
    [][ \A s \in Slots :
          reqs'[s] /= reqs[s] =>
              /\ model' = model /\ tokenizer' = tokenizer
              /\ engine' = engine /\ engineRunning' = engineRunning
              /\ (reqs'[s].st = "done"
                    /\ (reqs'[s].resp.code \in {500, 503}
                          \/ reqs'[s].streamEnd = "raised"))
                 => reqs'[s].id \notin jobs' ]_vars

\* A request failed with a 500, and a later one on the same handle was
\* answered.
C22_Witness ==
    \E s, t \in Slots :
        /\ s < t
        /\ Failed(s) /\ reqs[s].resp.code = 500 /\ reqs[s].backendCalls > 0
        /\ reqs[t].resp.code = 200 /\ reqs[t].st = "done"
        /\ Handle /= "None"


\* The phases of the request state machine, and its terminal states.
Phases == <<"Received", "Formatting", "Resolving", "Generating">>
Terminal == {"Completed", "Failed"}

\* Stages at which a handler engages a resource of the backend: the tokenizer
\* call with the move to the device, and the generation call.
Engaging == {"Tokenizing", "Generating"}

\* C23: every POST /chat request passes Received, Formatting, Resolving,
\* Generating in that order; once it has ended it has passed exactly one
\* terminal stage, the last one; and both Formatting and Resolving lie
\* before every stage that engages the backend.
C23_PhasesInOrder ==
    \A s \in Slots :
        LET stages == reqs[s].stages
            passed == SelectSeq(stages, LAMBDA x : x \notin Terminal \cup {"Tokenizing"})
            ended == SelectSeq(stages, LAMBDA x : x \in Terminal)
        IN reqs[s].route = "/chat" =>
             /\ Len(passed) <= Len(Phases)
             /\ passed = SubSeq(Phases, 1, Len(passed))
             /\ reqs[s].st = "done" =>
                    /\ Len(ended) = 1
                    /\ stages[Len(stages)] \in Terminal
             /\ \A i \in 1..Len(stages) :
                    stages[i] \in Engaging =>
                        /\ \E j \in 1..(i - 1) : stages[j] = "Formatting"
                        /\ \E j \in 1..(i - 1) : stages[j] = "Resolving"


\* How often the monitor issued the HTTP request `call` in this iteration.
Issued(call) == Len(SelectSeq(sent, LAMBDA x : x = call))

\* C24: nothing is retried.  A chat or stream request makes at most one
\* generation call on its backend, and one iteration of the monitor issues
\* at most one GET /health and one POST /chat, whatever the answers.
C24_NoRetry ==
    /\ \A s \in Slots : reqs[s].backendCalls <= 1
    /\ Issued("GET /health") <= 1
    /\ Issued("POST /chat") <= 1

\* A request failed after its one generation call; in the monitor both
\* calls of the iteration failed and the iteration went on to its sleep.
C24_Witness ==
    /\ \E s \in Slots : Failed(s) /\ reqs[s].backendCalls = 1
    /\ pc = "sleep"
    /\ "error" \in DOMAIN metrics.api_health
    /\ "error" \in DOMAIN metrics.performance
    /\ sent = <<"GET /health", "POST /chat">>


\* C25: whatever the request carries, the configuration handed to the
\* backend has the server's repetition penalty and the server's stop
\* condition: the stop sequences of the SamplingParams on the vLLM backend,
\* the eos_token_id of the generation arguments on the transformers backend.
C25_PenaltyAndStopFixed ==
    \A s \in Slots :
        reqs[s].sampling /= None =>
            LET handed == reqs[s].sampling[1]
            IN /\ handed.repetition_penalty = REPETITION_PENALTY
               /\ backend = "vllm" => handed.stop = StopSequences
               /\ backend = "transformers" =>
                      /\ handed.eos_token_id = EOS_TOKEN_ID
                      /\ "stop" \notin DOMAIN handed

\* A request whose body overrides all three sampling values, and names a
\* repetition penalty and stop values of its own, has been handed on.
C25_Witness ==
    \E s \in Slots :
        /\ reqs[s].sampling /= None
        /\ reqs[s].req = ParseChatRequest(
              [messages |-> <<[role |-> "user", content |-> Hi]>>,
               max_tokens |-> 16, temperature |-> 12, top_p |-> 5,
               repetition_penalty |-> 20, stop |-> {"h"}, eos_token_id |-> 1])
        /\ Handed(reqs[s]) = [max_tokens |-> 16, temperature |-> 12, top_p |-> 5]


\* The turns of a conversation whose role is user or assistant, in input
\* order.
ChatTurns(messages) ==
    SelectSeq(messages, LAMBDA m : /\ "role" \in DOMAIN m
                                   /\ m.role \in {"user", "assistant"})

\* C26: for every conversation the prompt is made of the blocks of its user
\* and assistant turns alone, in their input order, a turn without content
\* giving the block of the empty content; turns of any other role, or of
\* none, add nothing.  Formatting never fails: every request that found the
\* handle loaded has its prompt, and no failure is raised by the formatter.
C26_OtherRolesDropped ==
    \A s \in Slots :
        /\ reqs[s].formatted =>
              reqs[s].prompt =
                 BlocksFrom(ChatTurns(reqs[s].req.messages), 1)
                 \o <<"<|im_start|>", "assistant", "\n">>
        /\ (reqs[s].st /= "idle" /\ reqs[s].loaded) =>
              /\ reqs[s].formatted
              /\ "Formatting" \in {reqs[s].stages[i] : i \in DOMAIN reqs[s].stages}

\* A formatted conversation of a system turn followed by a user turn without
\* content: the prompt is the user's empty block and the assistant marker.
C26_Witness ==
    \E s \in Slots :
        /\ reqs[s].formatted
        /\ reqs[s].req.messages = <<[role |-> "system", content |-> Hi],
                                    [role |-> "user"]>>
        /\ reqs[s].prompt = <<"<|im_start|>", "user", "\n", "<|im_end|>", "\n",
                              "<|im_start|>", "assistant", "\n">>


-----------------------------------------------------------------------------
(* The monitor's probe and log file                                        *)

\* The kinds of the alerts check_alerts returned in this iteration.
AlertKinds == {alerts[i].kind : i \in DOMAIN alerts}

\* C27: the record of an iteration whose probe failed holds an error value
\* and no response_time, and check_alerts raises no response-time alert for
\* it, however long the probe took (a probe that ran into its 60 s timeout
\* included).
C27_FailedProbeNotTimed ==
    "error" \in DOMAIN metrics.performance =>
        /\ "response_time" \notin DOMAIN metrics.performance
        /\ "response_time" \notin AlertKinds

\* The probe failed when its 60 s timeout ran out, twice the 30 s of the
\* response-time alert, and check_alerts has run on the record.
C27_Witness ==
    /\ pc = "sleep"
    /\ "error" \in DOMAIN metrics.performance
    /\ elapsed > PROBE_TIMEOUT
    /\ "response_time" \notin AlertKinds


\* GET /health has answered 200 with status healthy.
ReportedHealthy == health.code = 200 /\ health.status = "healthy"

\* C28: on the transformers backend, in every state load_model can leave
\* behind, a model that is not None comes with a tokenizer that is not None;
\* so once GET /health has reported healthy both handles are loaded, and a
\* POST /chat that arrives then is not answered with the 503 of a model that
\* is not loaded.
C28_ModelImpliesTokenizer ==
    /\ [](backend = "transformers" =>
            /\ model /= "None" => tokenizer /= "None"
            /\ ReportedHealthy => ~NotLoadedT)
    /\ [][\A s \in Slots :
            ( /\ backend = "transformers"
              /\ ReportedHealthy
              /\ reqs[s].st = "idle"
              /\ reqs'[s].st /= "idle" )
            => reqs'[s].resp.code /= 503]_vars

\* On the transformers backend the health endpoint has reported healthy and
\* a chat request has been answered with a response.
C28_Witness ==
    /\ backend = "transformers"
    /\ ReportedHealthy
    /\ \E s \in Slots : reqs[s].loaded /\ reqs[s].resp.code = 200


\* The three sampling values a request resolves to by itself: each override
\* the handlers take (`x or default`), else the default of the class body.
OwnConfiguration(request) ==
    [max_tokens |-> OrDefault(request.max_tokens, MAX_TOKENS),
     temperature |-> OrDefault(request.temperature, TEMPERATURE),
     top_p |-> OrDefault(request.top_p, TOP_P)]

\* C29: overrides do not leak.  In every interleaving of requests the
\* configuration handed to the backend for a request is a function of that
\* request's own overrides and of the defaults, and the class attributes
\* that hold the defaults have the values of the class body after every
\* request.
C29_NoLeak ==
    /\ ModelConfig = ClassAttributes
    /\ \A s \in Slots :
          reqs[s].sampling /= None =>
              /\ Handed(reqs[s]) = OwnConfiguration(reqs[s].req)
              /\ reqs[s].sampling[1].repetition_penalty = REPETITION_PENALTY

\* A request that overrides all three values was handled, and after it a
\* request without overrides, which got the defaults.
C29_Witness ==
    \E s, t \in Slots :
        /\ s < t
        /\ reqs[s].sampling /= None /\ reqs[t].sampling /= None
        /\ Handed(reqs[s]) = [max_tokens |-> 32, temperature |-> 12, top_p |-> 5]
        /\ reqs[t].req.max_tokens = None
        /\ Handed(reqs[t]) =
              [max_tokens |-> MAX_TOKENS, temperature |-> TEMPERATURE,
               top_p |-> TOP_P]


\* C30: save_metrics_to_file on a missing or undecodable metrics.json
\* writes a log of exactly the new record; on a JSON document without a
\* usable records list, and on any failure of the file operations, it logs
\* an error, leaves the file as it was, does not store the record and does
\* not raise.
C30_FailedSaveKeepsFile ==
    [][(pc = "save" /\ trace' = Append(trace, "save_metrics_to_file")) =>
         /\ pc' = "alerts"
         /\ (file.kind \in {"missing", "corrupt"} /\ saved' = "written")
               => file' = [kind |-> "json", records |-> <<metrics.timestamp>>]
         /\ file.kind = "no_records" => saved' = "failed"
         /\ saved' = "failed" =>
               /\ file' = file
               /\ Len(logged') = Len(logged) + 1
               /\ logged'[Len(logged')].level = "error"]_vars


=============================================================================
